---------------------------- MODULE Spec2Model ----------------------------
(***************************************************************************)
(* Model of scripts/apply_plan_to_code.py (state -> code sync v1.3).       *)
(*                                                                         *)
(* Texts (file contents, Python str values) are sequences of one-character *)
(* strings.  Offsets keep Python's convention: 0-based, slices half-open.  *)
(* Attribute names are TLA+ strings; KeyChars gives their characters.      *)
(***************************************************************************)
EXTENDS Integers, Sequences, FiniteSets, TLC

(***************************************************************************)
(* Characters                                                              *)
(***************************************************************************)
NL == "\n"
QUOTE == "\""
BACKSLASH == "\\"
SP == " "

\* the regex class \s
Whitespace == { SP, NL, "\t", "\r", "\f" }
\* the regex class [ \t]
Blank == { SP, "\t" }

Min(a, b) == IF a < b THEN a ELSE b
Max(a, b) == IF a < b THEN b ELSE a

(***************************************************************************)
(* Python sequence primitives                                              *)
(***************************************************************************)
\* text[i]
At(text, i) == text[i + 1]

\* a slice bound as Python normalises it
NormIdx(i, n) == IF i < 0 THEN Max(i + n, 0) ELSE Min(i, n)

\* text[lo:hi]
Slice(text, lo, hi) ==
    SubSeq(text, NormIdx(lo, Len(text)) + 1, NormIdx(hi, Len(text)))

\* text[:hi]
Prefix(text, hi) == Slice(text, 0, hi)

\* text[lo:]
Suffix(text, lo) == Slice(text, lo, Len(text))

\* index just after the longest run of characters of class cls starting at i
SkipWhile(text, i, cls) ==
    IF i >= Len(text) THEN i
    ELSE CHOOSE j \in i..Len(text) :
            /\ j = Len(text) \/ At(text, j) \notin cls
            /\ \A k \in i..(j - 1) : At(text, k) \in cls

\* index of the first character of class cls at or after i, else len(text):
\* just after the longest run of characters outside cls (a negated class)
SkipUntil(text, i, cls) ==
    IF i >= Len(text) THEN i
    ELSE CHOOSE j \in i..Len(text) :
            /\ j = Len(text) \/ At(text, j) \in cls
            /\ \A k \in i..(j - 1) : At(text, k) \notin cls

\* whether the literal lit occurs in text at offset i
MatchLit(text, i, lit) ==
    /\ i + Len(lit) <= Len(text)
    /\ \A j \in 1..Len(lit) : text[i + j] = lit[j]

\* whether offset i is where (?m)^ matches
LineStart(text, i) == i = 0 \/ At(text, i - 1) = NL


(***************************************************************************)
(* Decoded JSON values: [t |-> tag, v |-> payload] with tag one of         *)
(*   "none" (v = <<>>), "bool" (BOOLEAN), "int" (Nat), "str" (characters), *)
(*   "list" (sequence of values), "dict" (function from names to values).  *)
(* JSON numbers of the model are non-negative integers.                    *)
(***************************************************************************)
None == [t |-> "none", v |-> <<>>]
PyBool(b) == [t |-> "bool", v |-> b]
PyInt(n) == [t |-> "int", v |-> n]
PyStr(s) == [t |-> "str", v |-> s]
PyList(l) == [t |-> "list", v |-> l]
PyDict(d) == [t |-> "dict", v |-> d]
EmptyDict == PyDict(<<>>)

\* the number a bool or an int compares as
NumOf(x) == IF x.t = "bool" THEN (IF x.v THEN 1 ELSE 0) ELSE x.v

\* Python's x == y on decoded JSON
RECURSIVE PyEq(_, _)
PyEq(x, y) ==
    IF x.t \in {"bool", "int"} /\ y.t \in {"bool", "int"}
    THEN NumOf(x) = NumOf(y)
    ELSE IF x.t # y.t THEN FALSE
    ELSE IF x.t = "list"
         THEN /\ Len(x.v) = Len(y.v)
              /\ \A i \in 1..Len(x.v) : PyEq(x.v[i], y.v[i])
    ELSE IF x.t = "dict"
         THEN /\ DOMAIN x.v = DOMAIN y.v
              /\ \A k \in DOMAIN x.v : PyEq(x.v[k], y.v[k])
    ELSE x.v = y.v

\* d.get(k, None)
Get(d, k) == IF k \in DOMAIN d THEN d[k] ELSE None

\* the characters of the names used as attribute keys and as keys of values
KeyChars(k) ==
    CASE k = "k" -> <<"k">>
      [] k = "n" -> <<"n">>
      [] k = "e" -> <<"e">>
      [] k = "o" -> <<"o">>
      [] k = "id" -> <<"i", "d">>
      [] k = "arn" -> <<"a", "r", "n">>
      [] k = "tags" -> <<"t", "a", "g", "s">>
      [] k = "tags_all" -> <<"t", "a", "g", "s", "_", "a", "l", "l">>
      [] k = "v_configuration" ->
           <<"v", "_", "c", "o", "n", "f", "i", "g", "u", "r", "a", "t", "i",
             "o", "n">>

\* the characters in increasing code point order
CharOrder ==
    << "\t", NL, "\f", "\r", SP, QUOTE, "#", "$", "(", ")", ",", ".", "0",
       "1", "2", "3", "4", "5", "6", "7", "8", "9", "=", "N", "[", BACKSLASH,
       "]", "_", "a", "b", "c", "d", "e", "f", "g", "h", "i", "j", "k", "l",
       "m", "n", "o", "p", "q", "r", "s", "t", "u", "v", "w", "x", "y", "z",
       "{", "}" >>

Ord(c) == CHOOSE i \in 1..Len(CharOrder) : CharOrder[i] = c

\* s < t for Python strings
RECURSIVE StrLess(_, _)
StrLess(s, t) ==
    IF t = <<>> THEN FALSE
    ELSE IF s = <<>> THEN TRUE
    ELSE IF Head(s) = Head(t) THEN StrLess(Tail(s), Tail(t))
    ELSE Ord(Head(s)) < Ord(Head(t))

\* sorted(S) for a set of names
RECURSIVE Sorted(_)
Sorted(S) ==
    IF S = {} THEN <<>>
    ELSE LET m == CHOOSE x \in S :
                    \A y \in S \ {x} : StrLess(KeyChars(x), KeyChars(y))
         IN <<m>> \o Sorted(S \ {m})

\* the orders in which iterating over the set S may yield its elements
Enumerations(S) ==
    { f \in [1..Cardinality(S) -> S] : \A x \in S : \E i \in DOMAIN f : f[i] = x }

\* the names seq with name x put before the first name that is not less
RECURSIVE InsertSorted(_, _)
InsertSorted(x, seq) ==
    IF seq = <<>> THEN <<x>>
    ELSE IF StrLess(KeyChars(Head(seq)), KeyChars(x))
         THEN <<Head(seq)>> \o InsertSorted(x, Tail(seq))
    ELSE <<x>> \o seq

\* the iteration order left as it comes
sorted_AsIterated(seq) == seq

\* sorted(keys) for the names in iteration order seq
RECURSIVE sorted(_)
sorted(seq) ==
    IF seq = <<>> THEN <<>> ELSE InsertSorted(Head(seq), sorted(Tail(seq)))

\* sep.join(parts)
RECURSIVE Join(_, _)
Join(sep, parts) ==
    IF parts = <<>> THEN <<>>
    ELSE IF Len(parts) = 1 THEN parts[1]
    ELSE parts[1] \o sep \o Join(sep, Tail(parts))

\* "".join(parts)
Concat(parts) == Join(<<>>, parts)

Digit(d) == <<"0", "1", "2", "3", "4", "5", "6", "7", "8", "9">>[d + 1]

\* str(n)
RECURSIVE IntStr(_)
IntStr(n) == IF n < 10 THEN <<Digit(n)>> ELSE IntStr(n \div 10) \o <<Digit(n % 10)>>

\* s.replace("\\", "\\\\").replace('"', '\\"').replace("\n", "\\n")
RECURSIVE Escape(_)
Escape(s) ==
    IF s = <<>> THEN <<>>
    ELSE (CASE Head(s) = BACKSLASH -> <<BACKSLASH, BACKSLASH>>
            [] Head(s) = QUOTE -> <<BACKSLASH, QUOTE>>
            [] Head(s) = NL -> <<BACKSLASH, "n">>
            [] OTHER -> <<Head(s)>>) \o Escape(Tail(s))

RECURSIVE to_hcl(_)
to_hcl(v) ==
    CASE v.t = "bool" -> IF v.v THEN <<"t", "r", "u", "e">>
                         ELSE <<"f", "a", "l", "s", "e">>
      [] v.t = "int" -> IntStr(v.v)
      [] v.t = "str" -> <<QUOTE>> \o Escape(v.v) \o <<QUOTE>>
      [] v.t = "list" ->
           <<"[">> \o Join(<<",", SP>>, [i \in 1..Len(v.v) |-> to_hcl(v.v[i])])
                   \o <<"]">>
      [] v.t = "dict" ->
           LET ks == Sorted(DOMAIN v.v)
           IN <<"{", SP>>
              \o Join(<<",", SP>>,
                      [i \in 1..Len(ks) |->
                          KeyChars(ks[i]) \o <<SP, "=", SP>> \o to_hcl(v.v[ks[i]])])
              \o <<SP, "}">>
      [] OTHER -> <<QUOTE, "N", "o", "n", "e", QUOTE>>

is_scalar(x) == x.t \in {"str", "int", "bool"}

is_object_dict(d) == d.t = "dict" /\ \A k \in DOMAIN d.v : is_scalar(d.v[k])

is_list_of_scalars(lst) ==
    lst.t = "list" /\ \A i \in 1..Len(lst.v) : is_scalar(lst.v[i])

is_list_of_object_dicts(lst) ==
    lst.t = "list" /\ \A i \in 1..Len(lst.v) : is_object_dict(lst.v[i])

\* Python truthiness of a decoded value ("if not d", "x or {}")
Truthy(x) ==
    CASE x.t = "none" -> FALSE
      [] x.t = "bool" -> x.v
      [] x.t = "int" -> x.v # 0
      [] x.t = "str" -> x.v # <<>>
      [] x.t = "list" -> x.v # <<>>
      [] x.t = "dict" -> DOMAIN x.v # {}

SKIP_ATTRS == {"id", "arn", "owner_id", "primary_network_interface_id", "tags_all"}

\* the markers of EXPR_SNIPPETS
EXPR_SNIPPETS ==
    << <<"$", "{">>, <<"v", "a", "r", ".">>, <<"l", "o", "c", "a", "l", ".">>,
       <<"m", "o", "d", "u", "l", "e", ".">>, <<"d", "a", "t", "a", ".">>,
       <<"p", "a", "t", "h", ".">>, <<"l", "o", "o", "k", "u", "p", "(">>,
       <<"m", "e", "r", "g", "e", "(">>, <<"t", "o", "l", "i", "s", "t", "(">>,
       <<"t", "o", "m", "a", "p", "(">>,
       <<"c", "i", "d", "r", "s", "u", "b", "n", "e", "t", "(">>,
       <<"f", "o", "r", "m", "a", "t", "(">>, <<"j", "o", "i", "n", "(">>,
       <<"c", "o", "n", "c", "a", "t", "(">> >>

\* tok in s
Contains(s, tok) == \E i \in 0..Len(s) : MatchLit(s, i, tok)

looks_like_expression(s) ==
    \E i \in 1..Len(EXPR_SNIPPETS) : Contains(s, EXPR_SNIPPETS[i])

(***************************************************************************)
(* keys_to_sync: before, after, after_unknown are decoded values.          *)
(***************************************************************************)
\* "a_unknown.get(k) is True"
IsTrue(x) == x.t = "bool" /\ x.v

\* keys_to_sync without its two "continue" exclusions
SyncsKey_NoExclusions(before, after, a_unknown, k) ==
    LET b == Get(before.v, k)
        a == Get(after.v, k)
    IN /\ ~PyEq(b, a)
       /\ \/ is_scalar(b) \/ is_object_dict(b)
          \/ is_list_of_scalars(b) \/ is_list_of_object_dicts(b)
          \/ (b.t = "none" /\ a.t # "none")

\* keys_to_sync accepting a live value of any shape
SyncsKey_AnyShape(before, after, a_unknown, k) ==
    LET b == Get(before.v, k)
        a == Get(after.v, k)
    IN /\ k \notin SKIP_ATTRS
       /\ ~IsTrue(Get(a_unknown.v, k))
       /\ ~PyEq(b, a)
       /\ b.t # "none" \/ a.t # "none"

\* whether the loop body of keys_to_sync adds k
SyncsKey(before, after, a_unknown, k) ==
    LET b == Get(before.v, k)
        a == Get(after.v, k)
    IN /\ k \notin SKIP_ATTRS
       /\ ~IsTrue(Get(a_unknown.v, k))
       /\ ~PyEq(b, a)
       /\ \/ is_scalar(b) \/ is_object_dict(b)
          \/ is_list_of_scalars(b) \/ is_list_of_object_dicts(b)
          \/ (b.t = "none" /\ a.t # "none")

keys_to_sync(before, after, after_unknown) ==
    IF before.t # "dict" \/ after.t # "dict" THEN {}
    ELSE LET a_unknown == IF Truthy(after_unknown) THEN after_unknown ELSE EmptyDict
         IN { k \in DOMAIN before.v \cup DOMAIN after.v :
                SyncsKey(before, after, a_unknown, k) }

(***************************************************************************)
(* Regular expressions of the script, matched as Python's re matches them  *)
(***************************************************************************)
RESOURCE == <<"r", "e", "s", "o", "u", "r", "c", "e">>

NoMatch == [ok |-> FALSE]

\* resource\s+"([^"]+)"\s+"([^"]+)"\s*{  anchored at offset i of text
HeaderAt(text, i) ==
    IF ~MatchLit(text, i, RESOURCE) THEN NoMatch
    ELSE
    LET p1 == i + Len(RESOURCE)
        q1 == SkipWhile(text, p1, Whitespace)          \* opening quote of type
        t1 == SkipUntil(text, q1 + 1, {QUOTE})       \* closing quote of type
        q2 == SkipWhile(text, t1 + 1, Whitespace)      \* opening quote of name
        t2 == SkipUntil(text, q2 + 1, {QUOTE})       \* closing quote of name
        b  == SkipWhile(text, t2 + 1, Whitespace)      \* the brace
    IN IF /\ q1 > p1 /\ MatchLit(text, q1, <<QUOTE>>)
          /\ t1 > q1 + 1 /\ t1 < Len(text)
          /\ q2 > t1 + 1 /\ MatchLit(text, q2, <<QUOTE>>)
          /\ t2 > q2 + 1 /\ t2 < Len(text)
          /\ MatchLit(text, b, <<"{">>)
       THEN [ok |-> TRUE, start |-> i, end |-> b + 1,
             rtype |-> Slice(text, q1 + 1, t1), rname |-> Slice(text, q2 + 1, t2)]
       ELSE NoMatch

\* (?m)^([ \t]*)attr\s*=\s*opener  anchored at offset i of block
AttrOpenAt(block, i, attr, opener) ==
    LET p1 == SkipWhile(block, i, Blank)
        p2 == SkipWhile(block, p1 + Len(attr), Whitespace)
        p3 == SkipWhile(block, p2 + 1, Whitespace)
    IN IF /\ LineStart(block, i)
          /\ MatchLit(block, p1, attr)
          /\ MatchLit(block, p2, <<"=">>)
          /\ MatchLit(block, p3, <<opener>>)
       THEN [ok |-> TRUE, start |-> i, end |-> p3 + 1, indent |-> Slice(block, i, p1)]
       ELSE NoMatch

\* (?m)^([ \t]*)name\s*{  anchored at offset i of block
BlockOpenAt(block, i, name) ==
    LET p1 == SkipWhile(block, i, Blank)
        p2 == SkipWhile(block, p1 + Len(name), Whitespace)
    IN IF /\ LineStart(block, i)
          /\ MatchLit(block, p1, name)
          /\ MatchLit(block, p2, <<"{">>)
       THEN [ok |-> TRUE, start |-> i, end |-> p2 + 1, indent |-> Slice(block, i, p1)]
       ELSE NoMatch

\* largest q in lo..hi-1 with block[q] not a newline, or -1
LastNonNewline(block, lo, hi) ==
    LET S == { q \in lo..(hi - 1) : At(block, q) # NL }
    IN IF S = {} THEN -1 ELSE CHOOSE q \in S : \A r \in S : r <= q

\* (?m)^[ \t]*name\s*=\s*.+?\n?  anchored at offset i of block.
\* \s* is greedy and gives characters back only when nothing follows it;
\* the lazy .+? takes exactly one character; \n? takes a newline if there.
ScalarLineAt(block, i, name) ==
    LET p1 == SkipWhile(block, i, Blank)
        p2 == SkipWhile(block, p1 + Len(name), Whitespace)
        p3 == SkipWhile(block, p2 + 1, Whitespace)
        dot == IF p3 < Len(block) THEN p3 ELSE LastNonNewline(block, p2 + 1, p3)
        d == dot + 1
    IN IF /\ LineStart(block, i)
          /\ MatchLit(block, p1, name)
          /\ MatchLit(block, p2, <<"=">>)
          /\ dot >= 0
       THEN [ok |-> TRUE, start |-> i,
             end |-> IF MatchLit(block, d, <<NL>>) THEN d + 1 ELSE d]
       ELSE NoMatch

\* offset one past the closer that balances the opener at i, scanning
\* text[i..limit); -1 when the loop ends without balance (None), -2 when
\* text[i] is read past the end of text (IndexError)
RECURSIVE ScanBalanced(_, _, _, _, _, _)
ScanBalanced(text, i, depth, limit, opener, closer) ==
    LET stop == Min(limit, Len(text))
        \* the loop only counts openers and closers: step to the next one
        j == SkipUntil(Prefix(text, stop), i, {opener, closer})
    IN IF j >= stop THEN (IF limit > Len(text) THEN -2 ELSE -1)
       ELSE IF At(text, j) = opener
            THEN ScanBalanced(text, j + 1, depth + 1, limit, opener, closer)
       ELSE IF depth - 1 = 0 THEN j + 1
       ELSE ScanBalanced(text, j + 1, depth - 1, limit, opener, closer)


(***************************************************************************)
(* index_tf_resources                                                      *)
(***************************************************************************)
\* the spans re.finditer yields in one file from offset pos on, in order
RECURSIVE SpansFrom(_, _, _)
SpansFrom(tf, text, pos) ==
    LET S == { i \in pos..(Len(text) - 1) : HeaderAt(text, i).ok }
    IN IF S = {} THEN <<>>
       ELSE LET m == HeaderAt(text, CHOOSE i \in S : \A j \in S : i <= j)
                end == ScanBalanced(text, m.end - 1, 0, Len(text), "{", "}")
            IN (IF end > 0
                THEN << [rtype |-> m.rtype, rname |-> m.rname, path |-> tf,
                         start |-> m.start, end |-> end] >>
                ELSE <<>>)
               \o SpansFrom(tf, text, m.end)

\* idx as the sequence of its entries, files in glob order
RECURSIVE IndexFiles(_, _)
IndexFiles(paths, fs) ==
    IF paths = <<>> THEN <<>>
    ELSE SpansFrom(Head(paths), fs[Head(paths)], 0) \o IndexFiles(Tail(paths), fs)

\* idx.get((rtype, rname)) or []
RECURSIVE Matches(_, _, _)
Matches(idx, rtype, rname) ==
    IF idx = <<>> THEN <<>>
    ELSE (IF Head(idx).rtype = rtype /\ Head(idx).rname = rname
          THEN <<Head(idx)>> ELSE <<>>) \o Matches(Tail(idx), rtype, rname)

resource_base_indent(file_text, block_start, block_end) ==
    LET block == Slice(file_text, block_start, block_end)
        g == SkipWhile(block, 0, Blank)
        q == SkipUntil(block, g + Len(RESOURCE), {NL})
    IN (IF MatchLit(block, g, RESOURCE) /\ q < Len(block)
        THEN Slice(block, 0, g) ELSE <<>>) \o <<SP, SP>>

(***************************************************************************)
(* find / delete existing occurrences                                      *)
(***************************************************************************)
\* the least element of a non-empty set of offsets
Least(S) == CHOOSE i \in S : \A j \in S : i <= j

\* pat.search(block) is the leftmost anchored match
SearchAttrOpen(block, attr, opener) ==
    LET S == { i \in 0..(Len(block) - 1) : AttrOpenAt(block, i, attr, opener).ok }
    IN IF S = {} THEN NoMatch ELSE AttrOpenAt(block, Least(S), attr, opener)

SearchBlockOpen(block, name) ==
    LET S == { i \in 0..(Len(block) - 1) : BlockOpenAt(block, i, name).ok }
    IN IF S = {} THEN NoMatch ELSE BlockOpenAt(block, Least(S), name)

SearchScalarLine(block, name) ==
    LET S == { i \in 0..(Len(block) - 1) : ScalarLineAt(block, i, name).ok }
    IN IF S = {} THEN NoMatch ELSE ScalarLineAt(block, Least(S), name)

\* what a finder returns: None, a span, or an uncaught IndexError
NotFound == [kind |-> "none"]
Found(s, e, indent) == [kind |-> "found", s |-> s, e |-> e, indent |-> indent]
Raised == [kind |-> "error"]

FinderResult(file_text, block_start, block_end, m, opener, closer) ==
    IF ~m.ok THEN NotFound
    ELSE LET e == ScanBalanced(file_text, block_start + m.end - 1, 0, block_end,
                               opener, closer)
         IN IF e = -2 THEN Raised
            ELSE IF e = -1 THEN NotFound
            ELSE Found(block_start + m.start, e, m.indent)

find_attr_braced_block(file_text, block_start, block_end, attr, opener, closer) ==
    FinderResult(file_text, block_start, block_end,
                 SearchAttrOpen(Slice(file_text, block_start, block_end), attr, opener),
                 opener, closer)

find_unassigned_block(file_text, block_start, block_end, name) ==
    FinderResult(file_text, block_start, block_end,
                 SearchBlockOpen(Slice(file_text, block_start, block_end), name),
                 "{", "}")

\* the state of delete_attr_occurrences between its loops
Edit(file_text, block_end, changed, error) ==
    [file_text |-> file_text, block_end |-> block_end, changed |-> changed,
     error |-> error]

\* the cut without "block_end -= (e - s)"
Cut_KeepEnd(ed, s, e) ==
    Edit(Prefix(ed.file_text, s) \o Suffix(ed.file_text, e), ed.block_end, TRUE, FALSE)

\* file_text = file_text[:s] + file_text[e:]; block_end -= (e - s)
Cut(ed, s, e) ==
    Edit(Prefix(ed.file_text, s) \o Suffix(ed.file_text, e), ed.block_end - (e - s),
         TRUE, FALSE)

\* while True: attr = opener ... closer
RECURSIVE DeleteBracedLoop(_, _, _, _, _)
DeleteBracedLoop(ed, block_start, name, opener, closer) ==
    IF ed.error THEN ed
    ELSE LET blk == find_attr_braced_block(ed.file_text, block_start, ed.block_end,
                                           name, opener, closer)
         IN IF blk.kind = "error" THEN [ed EXCEPT !.error = TRUE]
            ELSE IF blk.kind = "none" THEN ed
            ELSE DeleteBracedLoop(Cut(ed, blk.s, blk.e), block_start, name, opener, closer)

\* while True: block_name { ... }
RECURSIVE DeleteBlockLoop(_, _, _)
DeleteBlockLoop(ed, block_start, name) ==
    IF ed.error THEN ed
    ELSE LET blk == find_unassigned_block(ed.file_text, block_start, ed.block_end, name)
         IN IF blk.kind = "error" THEN [ed EXCEPT !.error = TRUE]
            ELSE IF blk.kind = "none" THEN ed
            ELSE DeleteBlockLoop(Cut(ed, blk.s, blk.e), block_start, name)

\* while True: scalar lines name = ...
RECURSIVE DeleteScalarLoop(_, _, _)
DeleteScalarLoop(ed, block_start, name) ==
    IF ed.error THEN ed
    ELSE LET m == SearchScalarLine(Slice(ed.file_text, block_start, ed.block_end), name)
         IN IF ~m.ok THEN ed
            ELSE DeleteScalarLoop(Cut(ed, block_start + m.start, block_start + m.end),
                                  block_start, name)

delete_attr_occurrences(file_text, block_start, block_end, name) ==
    DeleteScalarLoop(
        DeleteBlockLoop(
            DeleteBracedLoop(
                DeleteBracedLoop(Edit(file_text, block_end, FALSE, FALSE),
                                 block_start, name, "{", "}"),
                block_start, name, "[", "]"),
            block_start, name),
        block_start, name)

(***************************************************************************)
(* builders & inserters                                                    *)
(***************************************************************************)
\* the lines "{indent}  {k} = {to_hcl(d[k])}\n" for k in sorted(d.keys())
BodyLines(indent, d) ==
    LET ks == Sorted(DOMAIN d.v)
    IN Concat([i \in 1..Len(ks) |->
                 indent \o <<SP, SP>> \o KeyChars(ks[i]) \o <<SP, "=", SP>>
                        \o to_hcl(d.v[ks[i]]) \o <<NL>>])

build_map_attr(indent, attr, d) ==
    indent \o attr \o <<SP, "=", SP, "{", NL>> \o BodyLines(indent, d)
           \o indent \o <<"}", NL>>

build_list_attr(indent, attr, arr) ==
    indent \o attr \o <<SP, "=", SP, "[", NL>>
           \o Concat([i \in 1..Len(arr.v) |->
                        indent \o <<SP, SP>> \o to_hcl(arr.v[i]) \o <<NL>>])
           \o indent \o <<"]", NL>>

build_unassigned_block(indent, name, obj_dict) ==
    indent \o name \o <<SP, "{", NL>> \o BodyLines(indent, obj_dict)
           \o indent \o <<"}", NL>>

\* new_text = file_text[:block_end-1] + chunk + file_text[block_end-1:]
Inserted(file_text, block_end, chunk) ==
    [file_text |-> Prefix(file_text, block_end - 1) \o chunk
                     \o Suffix(file_text, block_end - 1),
     block_end |-> block_end + Len(chunk), changed |-> TRUE]

NotInserted(file_text, block_end) ==
    [file_text |-> file_text, block_end |-> block_end, changed |-> FALSE]

insert_scalar(file_text, block_start, block_end, attr, val) ==
    Inserted(file_text, block_end,
             <<NL>> \o resource_base_indent(file_text, block_start, block_end)
                    \o attr \o <<SP, "=", SP>> \o to_hcl(val) \o <<NL>>)

insert_map(file_text, block_start, block_end, attr, d) ==
    IF ~Truthy(d) THEN NotInserted(file_text, block_end)
    ELSE Inserted(file_text, block_end,
                  <<NL>> \o build_map_attr(
                      resource_base_indent(file_text, block_start, block_end), attr, d))

insert_list(file_text, block_start, block_end, attr, arr) ==
    IF ~Truthy(arr) THEN NotInserted(file_text, block_end)
    ELSE Inserted(file_text, block_end,
                  <<NL>> \o build_list_attr(
                      resource_base_indent(file_text, block_start, block_end), attr, arr))

insert_block_object(file_text, block_start, block_end, name, obj) ==
    IF ~Truthy(obj) THEN NotInserted(file_text, block_end)
    ELSE Inserted(file_text, block_end,
                  <<NL>> \o build_unassigned_block(
                      resource_base_indent(file_text, block_start, block_end), name, obj))

insert_block_list(file_text, block_start, block_end, name, list_of_objs) ==
    IF ~Truthy(list_of_objs) THEN NotInserted(file_text, block_end)
    ELSE Inserted(file_text, block_end,
                  Concat([i \in 1..Len(list_of_objs.v) |->
                            <<NL>> \o build_unassigned_block(
                                resource_base_indent(file_text, block_start, block_end),
                                name, list_of_objs.v[i])]))


(***************************************************************************)
(* The inputs of a run: the *.tf files of the working tree and plan.json   *)
(***************************************************************************)
MaxItems == 2      \* attribute items in a generated resource body
MaxBlocks == 2     \* resource blocks in a generated tree
MaxRecords == 2    \* resource_changes records in a generated plan
MaxRuns == 2       \* consecutive invocations of the tool on one tree

\* glob.glob("**/*.tf") in the order it yields the files
Paths == <<"f1.tf", "f2.tf">>

RType == <<"t">>
RNames == {<<"a">>, <<"b">>}

\* resource "t" "<name>" {\n
Header(rname) ==
    RESOURCE \o <<SP, QUOTE>> \o RType \o <<QUOTE, SP, QUOTE>> \o rname
             \o <<QUOTE, SP, "{", NL>>

\* the source forms an attribute named kc takes in a resource body
Forms == {"scalar1", "scalarN", "expr", "map", "list", "block"}

Fragment(form, kc) ==
    CASE form = "scalar1" -> <<SP, SP>> \o kc \o <<SP, "=", SP, "5", NL>>
      [] form = "scalarN" ->
           <<SP, SP>> \o kc \o <<SP, "=", SP, QUOTE, "a", "b", QUOTE, NL>>
      [] form = "expr" ->
           <<SP, SP>> \o kc \o <<SP, "=", SP, "v", "a", "r", ".", "x", NL>>
      [] form = "map" ->
           <<SP, SP>> \o kc \o <<SP, "=", SP, "{", NL>>
              \o <<SP, SP, SP, SP, "e", SP, "=", SP, QUOTE, "p", QUOTE, NL>>
              \o <<SP, SP, "}", NL>>
      [] form = "list" ->
           <<SP, SP>> \o kc \o <<SP, "=", SP, "[", NL>>
              \o <<SP, SP, SP, SP, QUOTE, "x", QUOTE, NL>>
              \o <<SP, SP, "]", NL>>
      [] form = "block" ->
           <<SP, SP>> \o kc \o <<SP, "{", NL>>
              \o <<SP, SP, SP, SP, "e", SP, "=", SP, QUOTE, "p", QUOTE, NL>>
              \o <<SP, SP, "}", NL>>
      [] form = "inner" ->       \* kc as an attribute of the nested block o
           <<SP, SP, "o", SP, "{", NL>>
              \o <<SP, SP, SP, SP>> \o kc \o <<SP, "=", SP, QUOTE, "p", QUOTE, NL>>
              \o <<SP, SP, "}", NL>>
      [] form = "other" ->       \* another attribute, n
           <<SP, SP, "n", SP, "=", SP, QUOTE, "a", "b", QUOTE, NL>>
      [] form = "mention" ->     \* a comment holding a resource header
           <<SP, SP, "#", SP>> \o RESOURCE \o <<SP, QUOTE>> \o RType
              \o <<QUOTE, SP, QUOTE, "b", QUOTE, SP, "{", SP, "}", NL>>

\* sequences over S of length at most n
SeqsUpTo(S, n) == UNION { [1..m -> S] : m \in 0..n }

\* a resource block whose body holds the given forms of attribute kc
Block(rname, forms, kc) ==
    Header(rname) \o Concat([i \in 1..Len(forms) |-> Fragment(forms[i], kc)])
                  \o <<"}", NL>>

\* values the live state ("before") gives an attribute; Absent: no such key
Absent == [t |-> "absent", v |-> <<>>]
Str_ab == PyStr(<<"a", "b">>)
Str_c == PyStr(<<"c">>)
Obj_p == PyDict([x \in {"e"} |-> PyStr(<<"p">>)])
Obj_pk == PyDict([x \in {"e", "k"} |-> IF x = "e" THEN PyStr(<<"p">>) ELSE PyInt(5)])
LiveVals ==
    { Absent, None, Str_ab, Str_c, PyInt(5), PyBool(TRUE),
      PyList(<<>>), PyList(<<PyStr(<<"x">>)>>),
      PyList(<<PyStr(<<"x">>), PyStr(<<"y">>)>>),
      EmptyDict, Obj_p, Obj_pk, PyList(<<Obj_p>>),
      PyDict([x \in {"e"} |-> PyList(<<PyStr(<<"x">>)>>)]) }
DesiredVals == { Absent, Str_ab }
UnknownVals == { Absent, PyBool(TRUE) }

\* the object {key: val}, or {} when the key is absent
ObjOf(key, val) ==
    IF val.t = "absent" THEN EmptyDict ELSE PyDict([x \in {key} |-> val])

\* one element of resource_changes
Record(rname, actions, key, b, a, u) ==
    [type |-> RType, name |-> rname, address |-> RType \o <<".">> \o rname,
     actions |-> actions, before |-> ObjOf(key, b), after |-> ObjOf(key, a),
     after_unknown |-> ObjOf(key, u)]

NoFile == [p \in {Paths[i] : i \in 1..Len(Paths)} |-> <<>>]

\* one resource "t" "a" in f1.tf with any body, one update record for it
KeyMenu == {"k", "tags", "id"}
SingleInputs ==
    { [files |-> [NoFile EXCEPT !["f1.tf"] = Block(<<"a">>, forms, KeyChars(key))],
       plan |-> << Record(<<"a">>, {"update"}, key, b, a, u) >>] :
        forms \in SeqsUpTo(Forms, MaxItems), key \in KeyMenu,
        b \in LiveVals, a \in DesiredVals, u \in UnknownVals }

\* the files made of a sequence of (path, name) blocks, each block holding
\* the one line  k = "ab"
RECURSIVE TreeOf(_)
TreeOf(blocks) ==
    IF blocks = <<>> THEN NoFile
    ELSE LET rest == TreeOf(Tail(blocks))
             b == Head(blocks)
         IN [rest EXCEPT ![b[1]] = Block(b[2], <<"scalarN">>, <<"k">>) \o @]

\* the records a multi-resource plan is made of
MultiRecords ==
    { Record(rname, {"update"}, "k", Str_c, Str_ab, Absent) : rname \in RNames }
    \cup { Record(<<"a">>, {"update"}, "k", Absent, Str_ab, Absent),
           Record(<<"a">>, {"update"}, "k", PyList(<<>>), Str_ab, Absent),
           Record(<<"a">>, {"no-op"}, "k", Str_c, Str_ab, Absent),
           Record(<<"a">>, {"update"}, "id", Str_c, Str_ab, Absent) }

MultiInputs ==
    { [files |-> TreeOf(blocks), plan |-> plan] :
        blocks \in SeqsUpTo({Paths[i] : i \in 1..Len(Paths)} \X RNames, MaxBlocks),
        plan \in SeqsUpTo(MultiRecords, MaxRecords) }

\* resource "t" "a" whose body nests a block, holds a second attribute or
\* mentions another resource in a comment; one update record, of one key or
\* of the two keys k and n
NestedForms == {"scalarN", "inner", "other", "mention"}

TwoKeys(val) == PyDict([x \in {"k", "n"} |-> val])

\* live values main cannot print: a mapping with a list in it, a list of a
\* scalar and a mapping, a list of a list
Obj_deep == PyDict([x \in {"e"} |-> PyList(<<PyStr(<<"x">>)>>)])
List_mixed == PyList(<<PyStr(<<"x">>), Obj_p>>)
List_deep == PyList(<<PyList(<<PyStr(<<"x">>)>>)>>)

NestedRecords ==
    { Record(<<"a">>, {"update"}, "k", b, Str_ab, Absent) :
        b \in {Obj_deep, List_mixed, List_deep} }
    \cup
    { Record(<<"a">>, {"update"}, "k", Str_c, Str_ab, Absent),
      Record(<<"a">>, {"update"}, "k", Absent, Str_ab, Absent),
      Record(<<"b">>, {"update"}, "k", Str_c, Str_ab, Absent),
      [Record(<<"a">>, {"update"}, "k", Str_c, Str_ab, Absent)
          EXCEPT !.before = TwoKeys(Str_c), !.after = TwoKeys(Str_ab)] }

NestedInputs ==
    { [files |-> [NoFile EXCEPT !["f1.tf"] = Block(<<"a">>, forms, <<"k">>)],
       plan |-> <<rc>>] :
        forms \in SeqsUpTo(NestedForms, MaxItems), rc \in NestedRecords }

(***************************************************************************)
(* main                                                                    *)
(***************************************************************************)
VARIABLES
    files,            \* the working tree: path -> text
    argc,             \* len(sys.argv)
    doc,              \* what plan.json holds: "object", "invalid", "no_field", "null_field"
    plan,             \* plan.json's resource_changes
    pc,               \* where main is
    idx,              \* index_tf_resources() of this run
    rci,              \* position of the for loop over resource_changes
    keys, ki,         \* sorted(keys) of the record and the loop position in it
    path, start, end, file_text, any_changed,   \* main's locals
    changes_applied, touched,
    out, err,         \* per-key lines printed to stdout, lines printed to stderr
    summary,          \* the final lines of stdout
    run,              \* number of the current invocation
    orig,             \* history: the text the current record read
    writes,           \* history: path -> number of open(path, "w") of this run
    first             \* history: the tree and the summary the first run left

vars == <<files, argc, doc, plan, pc, idx, rci, keys, ki, path, start, end, file_text,
          any_changed, changes_applied, touched, out, err, summary, run, orig,
          writes, first>>

invocation == <<argc, doc>>

locals == <<path, start, end, file_text, any_changed, keys, ki, orig>>

NoWrites == [p \in DOMAIN NoFile |-> 0]

InitOf(tree, n, d, rcs) ==
    /\ files = tree
    /\ argc = n
    /\ doc = d
    /\ plan = rcs
    /\ pc = "start"
    /\ idx = <<>>
    /\ rci = 1
    /\ keys = <<>> /\ ki = 1
    /\ path = "" /\ start = 0 /\ end = 0 /\ file_text = <<>> /\ any_changed = FALSE
    /\ changes_applied = 0 /\ touched = {}
    /\ out = <<>> /\ err = <<>> /\ summary = <<>>
    /\ run = 1
    /\ orig = <<>>
    /\ writes = NoWrites
    /\ first = [done |-> FALSE]

\* python3 apply_plan_to_code.py plan.json, on well-formed JSON
InitWith(input) == InitOf(input.files, 2, "object", input.plan)

InitSingle == \E input \in SingleInputs : InitWith(input)
InitMulti == \E input \in MultiInputs : InitWith(input)
InitNested == \E input \in NestedInputs : InitWith(input)

\* the ways the tool is invoked on a tree: without its argument, on a file
\* that is no JSON, on a JSON object without resource_changes or with a null
\* one, and on a well-formed plan of at most one record
Invocations ==
    { [argc |-> 1, doc |-> "object", plan |-> <<>>] }
    \cup { [argc |-> 2, doc |-> d, plan |-> <<>>] :
             d \in {"invalid", "no_field", "null_field"} }
    \cup { [argc |-> 2, doc |-> "object", plan |-> rcs] :
             rcs \in SeqsUpTo(MultiRecords, 1) }

InitDoc ==
    \E blocks \in SeqsUpTo({Paths[i] : i \in 1..Len(Paths)} \X RNames, MaxBlocks),
       inv \in Invocations :
       InitOf(TreeOf(blocks), inv.argc, inv.doc, inv.plan)
Init == InitSingle \/ InitMulti

\* "x or {}"
OrEmpty(x) == IF Truthy(x) THEN x ELSE EmptyDict

\* plan.get("resource_changes") or []
resource_changes == IF doc = "object" THEN plan ELSE <<>>

\* the record the for loop is at, and what main derives from it
Rc == resource_changes[rci]
Before == OrEmpty(Rc.before)
After == OrEmpty(Rc.after)
AfterUnknown == OrEmpty(Rc.after_unknown)
RcKeys == keys_to_sync(Before, After, AfterUnknown)
RcMatches == Matches(idx, Rc.type, Rc.name)

\* "if len(matches) > 1" accepting any number of matches
IsAmbiguous_Never(matches) == FALSE

\* if len(matches) > 1: skip the resource
IsAmbiguous(matches) == Len(matches) > 1

\* writing the file whether or not anything changed
ShouldWrite_Always(changed) == TRUE

\* if any_changed: write the file
ShouldWrite(changed) == changed

\* the usage check, plan = json.load(...) and idx = index_tf_resources():
\* a missing argument exits with status 2, a document that is no JSON makes
\* json.load raise
Start ==
    /\ pc = "start"
    /\ IF argc # 2
       THEN /\ err' = Append(err, <<"Usage", <<>>, "apply_plan_to_code.py plan.json">>)
            /\ pc' = "exit2"
            /\ UNCHANGED idx
       ELSE IF doc = "invalid"
       THEN pc' = "crashed" /\ UNCHANGED <<idx, err>>
       ELSE /\ idx' = IndexFiles(Paths, files)
            /\ pc' = "record"
            /\ UNCHANGED err
    /\ rci' = 1
    /\ UNCHANGED <<files, plan, locals, changes_applied, touched, out,
                   summary, run, writes, first>>
    /\ UNCHANGED invocation

\* the head of the for loop over resource_changes, up to reading the file
NextRecord ==
    /\ pc = "record"
    /\ rci <= Len(resource_changes)
    /\ IF "update" \notin Rc.actions \/ RcKeys = {}
       THEN /\ rci' = rci + 1
            /\ UNCHANGED <<pc, locals, err>>
       ELSE IF Len(RcMatches) = 0
       THEN /\ err' = Append(err, <<"SKIP", Rc.address, "resource not found in code">>)
            /\ rci' = rci + 1
            /\ UNCHANGED <<pc, locals>>
       ELSE IF IsAmbiguous(RcMatches)
       THEN /\ err' = Append(err, <<"SKIP", Rc.address, "multiple code matches",
                                    [i \in 1..Len(RcMatches) |-> RcMatches[i].path]>>)
            /\ rci' = rci + 1
            /\ UNCHANGED <<pc, locals>>
       ELSE /\ path' = RcMatches[1].path
            /\ start' = RcMatches[1].start
            /\ end' = RcMatches[1].end
            /\ file_text' = files[RcMatches[1].path]
            /\ orig' = files[RcMatches[1].path]
            /\ any_changed' = FALSE
            /\ \E order \in Enumerations(RcKeys) : keys' = sorted(order)
            /\ ki' = 1
            /\ pc' = "delete"
            /\ UNCHANGED <<rci, err>>
    /\ UNCHANGED <<files, plan, idx, changes_applied, touched, out, summary, run,
                   writes, first>>
    /\ UNCHANGED invocation

\* file_text, end, _ = delete_attr_occurrences(file_text, start, end, k)
DeleteKey ==
    /\ pc = "delete"
    /\ LET ed == delete_attr_occurrences(file_text, start, end, KeyChars(keys[ki]))
       IN IF ed.error
          THEN pc' = "crashed" /\ UNCHANGED <<file_text, end>>
          ELSE /\ file_text' = ed.file_text
               /\ end' = ed.block_end
               /\ pc' = "insert"
    /\ UNCHANGED <<files, plan, idx, rci, keys, ki, path, start, any_changed,
                   changes_applied, touched, out, err, summary, run, orig, writes,
                   first>>
    /\ UNCHANGED invocation

\* the insert_* call main picks for val, with the shape it prints; prefer_block
\* and prefer_map are computed as main computes them
InsertFor(text, s, e, k, val) ==
    LET prefer_map_names == {"tags", "labels", "metadata", "tags_map"}
        cfg == <<"_", "c", "o", "n", "f", "i", "g", "u", "r", "a", "t", "i", "o", "n">>
        kc == KeyChars(k)
        prefer_block == \/ (Len(kc) >= Len(cfg) /\ MatchLit(kc, Len(kc) - Len(cfg), cfg))
                        \/ is_object_dict(val) \/ is_list_of_object_dicts(val)
        prefer_map == (k \in prefer_map_names) \/ (val.t = "dict" /\ ~prefer_block)
    IN IF is_object_dict(val)
       THEN [r |-> insert_block_object(text, s, e, kc, val), shape |-> "block"]
       ELSE IF is_list_of_object_dicts(val)
       THEN [r |-> insert_block_list(text, s, e, kc, val), shape |-> "blocks list"]
       ELSE IF is_list_of_scalars(val)
       THEN [r |-> insert_list(text, s, e, kc, val), shape |-> "list"]
       ELSE IF val.t = "dict"
       THEN IF prefer_block /\ ~prefer_map
            THEN [r |-> insert_block_object(text, s, e, kc, val),
                  shape |-> "block-from-dict"]
            ELSE [r |-> insert_map(text, s, e, kc, val), shape |-> "map"]
       ELSE IF is_scalar(val)
       THEN [r |-> insert_scalar(text, s, e, kc, val), shape |-> "scalar"]
       ELSE [r |-> [file_text |-> text, block_end |-> e, changed |-> TRUE],
             shape |-> "unsupported type"]

\* the rest of the body of "for k in sorted(keys)" after the delete
InsertKey ==
    /\ pc = "insert"
    /\ LET k == keys[ki]
           val == Get(Before.v, k)
           kc == KeyChars(k)
           had_block == find_unassigned_block(file_text, start, end, kc)
           had_map == find_attr_braced_block(file_text, start, end, kc, "{", "}")
           ins == InsertFor(file_text, start, end, k, val)
       IN IF val.t = "none"
          THEN /\ out' = Append(out, <<Rc.address, "REMOVE", k, "absent in state">>)
               /\ any_changed' = TRUE
               /\ ki' = ki + 1
               /\ pc' = IF ki < Len(keys) THEN "delete" ELSE "write"
               /\ UNCHANGED <<file_text, end>>
          ELSE IF had_block.kind = "error" \/ had_map.kind = "error"
          THEN pc' = "crashed" /\ UNCHANGED <<file_text, end, any_changed, ki, out>>
          ELSE /\ file_text' = ins.r.file_text
               /\ end' = ins.r.block_end
               /\ any_changed' = (any_changed \/ ins.r.changed)
               /\ out' = Append(out, <<Rc.address,
                                       IF ins.shape = "unsupported type"
                                       THEN "REMOVE" ELSE "SYNC", k, ins.shape>>)
               /\ ki' = ki + 1
               /\ pc' = IF ki < Len(keys) THEN "delete" ELSE "write"
    /\ UNCHANGED <<files, plan, idx, rci, keys, path, start, changes_applied,
                   touched, err, summary, run, orig, writes, first>>
    /\ UNCHANGED invocation

\* if any_changed: write the file, count the resource
WriteFile ==
    /\ pc = "write"
    /\ IF ShouldWrite(any_changed)
       THEN /\ files' = [files EXCEPT ![path] = file_text]
            /\ changes_applied' = changes_applied + 1
            /\ touched' = touched \cup {path}
            /\ writes' = [writes EXCEPT ![path] = @ + 1]
       ELSE UNCHANGED <<files, changes_applied, touched, writes>>
    /\ rci' = rci + 1
    /\ pc' = "record"
    /\ UNCHANGED <<plan, idx, locals, out, err, summary, run, first>>
    /\ UNCHANGED invocation

\* the summary lines after the loop
Finish ==
    /\ pc = "record"
    /\ rci > Len(resource_changes)
    /\ summary' = << <<"APPLIED_CHANGES", changes_applied>> >>
                     \o (IF touched # {} THEN << <<"FILES_CHANGED", touched>> >>
                         ELSE <<>>)
    /\ pc' = "done"
    /\ UNCHANGED <<files, plan, idx, rci, locals, changes_applied, touched, out,
                   err, run, writes, first>>
    /\ UNCHANGED invocation

\* the tool is invoked again with the same plan.json on the tree it left
Rerun ==
    /\ pc = "done"
    /\ run < MaxRuns
    /\ run' = run + 1
    /\ first' = IF run = 1
                THEN [done |-> TRUE, files |-> files, changes_applied |-> changes_applied]
                ELSE first
    /\ pc' = "start"
    /\ idx' = <<>>
    /\ rci' = 1
    /\ keys' = <<>> /\ ki' = 1
    /\ path' = "" /\ start' = 0 /\ end' = 0 /\ file_text' = <<>>
    /\ any_changed' = FALSE
    /\ changes_applied' = 0 /\ touched' = {}
    /\ out' = <<>> /\ err' = <<>> /\ summary' = <<>>
    /\ orig' = <<>>
    /\ writes' = NoWrites
    /\ UNCHANGED <<files, plan>>
    /\ UNCHANGED invocation

Next == Start \/ NextRecord \/ DeleteKey \/ InsertKey \/ WriteFile \/ Finish \/ Rerun

Spec == Init /\ [][Next]_vars
SpecSingle == InitSingle /\ [][Next]_vars
SpecMulti == InitMulti /\ [][Next]_vars
SpecDoc == InitDoc /\ [][Next]_vars
SpecNested == InitNested /\ [][Next]_vars


(***************************************************************************)
(* Notions the claims are stated with                                      *)
(***************************************************************************)
\* [s, e) is exactly the brace-balanced block  resource "rtype" "rname" { }
SpanIsBlock(text, s, e, rtype, rname) ==
    LET m == HeaderAt(text, s)
    IN /\ m.ok
       /\ m.rtype = rtype /\ m.rname = rname
       /\ ScanBalanced(text, m.end - 1, 0, Len(text), "{", "}") = e

\* the records main has finished with
Processed == 1..(rci - 1)

AllPaths == DOMAIN NoFile

(***************************************************************************)
(* C2 (as stated): every update record whose (type, name) has two or more  *)
(* spans in the index leaves every file unwritten, is reported as skipped  *)
(* on stderr, does not count in APPLIED_CHANGES, and the loop goes on to   *)
(* the next record.                                                        *)
(***************************************************************************)
AtAmbiguousRecord ==
    /\ pc = "record" /\ rci <= Len(plan)
    /\ "update" \in Rc.actions
    /\ Len(RcMatches) >= 2

SkippedAsAmbiguous ==
    /\ files' = files /\ writes' = writes
    /\ changes_applied' = changes_applied
    /\ Len(err') = Len(err) + 1
    /\ err'[Len(err')][1] = "SKIP" /\ err'[Len(err')][2] = Rc.address
    /\ err'[Len(err')][3] = "multiple code matches"
    /\ rci' = rci + 1 /\ pc' = "record"

C3_SpanValidAtRecordStart ==
    (pc = "delete" /\ ki = 1) => SpanIsBlock(file_text, start, end, Rc.type, Rc.name)

Excluded(rec, k) ==
    k \in SKIP_ATTRS \/ IsTrue(Get(OrEmpty(rec.after_unknown).v, k))

C10_PlannerExclusions ==
    /\ \A j \in 1..Len(plan) :
          \A k \in keys_to_sync(OrEmpty(plan[j].before), OrEmpty(plan[j].after),
                                OrEmpty(plan[j].after_unknown)) :
             ~Excluded(plan[j], k)
    /\ pc \in {"delete", "insert"} => ~Excluded(Rc, keys[ki])
    /\ \A i \in 1..Len(out) :
          \A j \in 1..Len(plan) :
             plan[j].address = out[i][1] => ~Excluded(plan[j], out[i][3])

\* a record whose only differing key is computed or unknown-after was
\* planned and passed over: the run ended having logged nothing for it
C10_Witness ==
    /\ pc = "done" /\ Len(plan) = 1 /\ out = <<>>
    /\ \E k \in DOMAIN OrEmpty(plan[1].before).v :
          /\ Excluded(plan[1], k)
          /\ SyncsKey_NoExclusions(OrEmpty(plan[1].before), OrEmpty(plan[1].after),
                                   OrEmpty(plan[1].after_unknown), k)


(***************************************************************************)
(* Textual notions of the claims about one key                             *)
(***************************************************************************)
\* brace depth of offset i of block: 1 directly inside the resource braces
DepthAt(block, i) ==
    Cardinality({ j \in 0..(i - 1) : At(block, j) = "{" })
      - Cardinality({ j \in 0..(i - 1) : At(block, j) = "}" })

\* a definition of kc starts the line at offset i: key = ..., key {
DefinesAt(block, i, kc) ==
    LET p1 == SkipWhile(block, i, Blank)
        p2 == SkipWhile(block, p1 + Len(kc), Whitespace)
    IN /\ LineStart(block, i)
       /\ MatchLit(block, p1, kc)
       /\ MatchLit(block, p2, <<"=">>) \/ MatchLit(block, p2, <<"{">>)

\* offsets where the resource's own definitions of kc start
TopLevelDefs(block, kc) ==
    { i \in 0..(Len(block) - 1) : DefinesAt(block, i, kc) /\ DepthAt(block, i) = 1 }

\* the single-line scalar assignment  key = <rhs>  starting the line at i
ScalarAssignAt(block, i, kc) ==
    LET p1 == SkipWhile(block, i, Blank)
        p2 == SkipWhile(block, p1 + Len(kc), Blank)
        p3 == SkipWhile(block, p2 + 1, Blank)
        eol == SkipUntil(block, p3, {NL})
    IN IF /\ LineStart(block, i)
          /\ MatchLit(block, p1, kc)
          /\ MatchLit(block, p2, <<"=">>)
          /\ eol > p3
          /\ At(block, p3) \notin {"{", "["}
       THEN [ok |-> TRUE, start |-> i, end |-> Min(eol + 1, Len(block)),
             rhs |-> Slice(block, p3, eol)]
       ELSE NoMatch

\* the resource's own single-line scalar assignments of kc
ScalarAssigns(block, kc) ==
    { i \in 0..(Len(block) - 1) :
        ScalarAssignAt(block, i, kc).ok /\ DepthAt(block, i) = 1 }

\* the value main writes for the key it is at
Val == Get(Before.v, keys[ki])
Kc == KeyChars(keys[ki])

\* a live value that is present and not an empty collection
NonEmpty(val) == val.t # "none" /\ (val.t \in {"list", "dict"} => Truthy(val))

\* the span main works on, before and after a step
Span == Slice(file_text, start, end)
SpanNext == Slice(file_text', start', end')

\* the blocks  resource "rtype" "rname" { }  of a text
BlocksOf(text, rtype, rname) == Matches(SpansFrom("", text, 0), rtype, rname)

\* the key has definitions in the span, all of them single-line scalar
\* assignments
OnlyScalarAssigns(block, kc) ==
    /\ ScalarAssigns(block, kc) # {}
    /\ TopLevelDefs(block, kc) = ScalarAssigns(block, kc)

\* ... whose right-hand sides all hold a marker of EXPR_SNIPPETS
OnlyExpressionAssigns(block, kc) ==
    /\ OnlyScalarAssigns(block, kc)
    /\ \A i \in ScalarAssigns(block, kc) :
          looks_like_expression(ScalarAssignAt(block, i, kc).rhs)

\* block without its single-line scalar assignments of kc, whole lines
RECURSIVE DropAssigns(_, _)
DropAssigns(block, kc) ==
    LET S == ScalarAssigns(block, kc)
    IN IF S = {} THEN block
       ELSE LET m == ScalarAssignAt(block, Least(S), kc)
            IN DropAssigns(Prefix(block, m.start) \o Suffix(block, m.end), kc)

\* the line main prints last in a step
Printed(line) == out' = Append(out, line)

(***************************************************************************)
(* C1: a key whose source form in the span is a single-line scalar         *)
(* assignment with an expression marker in its right-hand side keeps that  *)
(* line byte for byte, gets no replacement definition, and is reported as  *)
(* skipped.                                                                *)
(***************************************************************************)
C1_ExpressionPreserved ==
    [][(pc \in {"delete", "insert"} /\ OnlyExpressionAssigns(Span, Kc)) =>
          /\ file_text' = file_text /\ end' = end
          /\ pc = "insert" => \E note \in {"expression"} :
                                 Printed(<<Rc.address, "SKIP", keys[ki], note>>)]_vars

(***************************************************************************)
(* C5: after delete_attr_occurrences and the matching insert_* for a key   *)
(* with a non-empty live value, the record's resource block holds exactly  *)
(* one definition of the key (for a list of objects: one per element).     *)
(***************************************************************************)
C5_NoDuplication ==
    [][(/\ pc = "insert" /\ pc' # "crashed" /\ NonEmpty(Val)
        /\ InsertFor(file_text, start, end, keys[ki], Val).shape # "unsupported type") =>
          \E bs \in {BlocksOf(file_text', Rc.type, Rc.name)} :
             /\ Len(bs) = 1
             /\ Cardinality(TopLevelDefs(Slice(file_text', bs[1].start, bs[1].end), Kc))
                  = IF is_list_of_object_dicts(Val) THEN Len(Val.v) ELSE 1]_vars

(***************************************************************************)
(* C6: a second run with the same change-set on the tree the first run     *)
(* left changes no file and reports the same APPLIED_CHANGES.              *)
(***************************************************************************)
C6_Idempotence ==
    (pc = "done" /\ run = 2) =>
        /\ files = first.files
        /\ changes_applied = first.changes_applied

(***************************************************************************)
(* C7: a key absent (or null) in live state and present in desired state,  *)
(* defined in the span by single-line scalar assignments, has those whole  *)
(* lines removed and nothing else changed, and REMOVE <key> (absent in     *)
(* state) is logged.                                                       *)
(***************************************************************************)
C7_AbsentKeyLineRemoved ==
    [][(/\ pc \in {"delete", "insert"}
        /\ Val.t = "none" /\ Get(After.v, keys[ki]).t # "none") =>
          /\ (pc = "delete" /\ OnlyScalarAssigns(Span, Kc)) =>
                /\ file_text' = Prefix(file_text, start) \o DropAssigns(Span, Kc)
                                   \o Suffix(file_text, end)
                /\ end' = start + Len(DropAssigns(Span, Kc))
          /\ pc = "insert" =>
                /\ Printed(<<Rc.address, "REMOVE", keys[ki], "absent in state">>)
                /\ file_text' = file_text /\ end' = end]_vars

(***************************************************************************)
(* C8: a key of the map-like names whose live value is a non-empty mapping *)
(* of scalars is written as the map assignment  key = { ... }, logged as   *)
(* SYNC <key> (map), and never as a bare block  key { ... }.               *)
(***************************************************************************)
C8_MapLikeNamesAsMap ==
    [][(/\ pc = "insert" /\ pc' # "crashed"
        /\ keys[ki] \in {"tags", "labels", "metadata", "tags_map"}
        /\ is_object_dict(Val) /\ Truthy(Val)) =>
          /\ Printed(<<Rc.address, "SYNC", keys[ki], "map">>)
          /\ SearchAttrOpen(SpanNext, Kc, "{").ok
          /\ ~SearchBlockOpen(SpanNext, Kc).ok]_vars

(***************************************************************************)
(* C9: once the run is over, a synced key whose live value is an empty     *)
(* list or an empty mapping has no definition left in its resource block   *)
(* of the written file.                                                    *)
(***************************************************************************)
EmptyCollection(val) == val.t \in {"list", "dict"} /\ ~Truthy(val)

C9_EmptyCollectionDeleted ==
    (pc = "done" /\ run = 1) =>
        \A j \in 1..Len(plan) :
           \A k \in keys_to_sync(OrEmpty(plan[j].before), OrEmpty(plan[j].after),
                                 OrEmpty(plan[j].after_unknown)) :
              LET ms == Matches(idx, plan[j].type, plan[j].name)
              IN (/\ "update" \in plan[j].actions
                  /\ EmptyCollection(Get(OrEmpty(plan[j].before).v, k))
                  /\ Len(ms) = 1) =>
                    \A bs \in {BlocksOf(files[ms[1].path], plan[j].type, plan[j].name)} :
                       \A i \in 1..Len(bs) :
                          TopLevelDefs(Slice(files[ms[1].path], bs[i].start, bs[i].end),
                                       KeyChars(k)) = {}

(***************************************************************************)
(* C11: a resource is counted in APPLIED_CHANGES only when its edits       *)
(* changed the text it read, and a file is listed in FILES_CHANGED only    *)
(* when the write changed its text; a record whose keys changed nothing    *)
(* (a planned delete of a key the source does not hold) is not counted     *)
(* and its file is not listed.                                             *)
(***************************************************************************)
C11_SummaryCountsRealEdits ==
    [][pc = "write" =>
          /\ changes_applied' = changes_applied + 1 <=> file_text # orig
          /\ path \in touched' <=> (path \in touched \/ files'[path] # files[path])]_vars

(***************************************************************************)
(* C12: a run on a document that is no valid JSON or lacks the top-level   *)
(* resource_changes field, or a run without the command argument, aborts:  *)
(* it writes no file and never reaches the normal summary.                 *)
(***************************************************************************)
Malformed == argc # 2 \/ doc \in {"invalid", "no_field"}

C12_FatalInputErrors ==
    Malformed => /\ pc # "done"
                 /\ summary = <<>>
                 /\ writes = NoWrites

(***************************************************************************)
(* Reading a written definition back as configuration source: an attribute *)
(* is  name = expression ; a quoted literal ends at the closing quote and  *)
(* takes the escapes \\ \" \n ; the items of a [ ] tuple are separated by  *)
(* commas, newlines between them separate nothing; the entries of a { }    *)
(* object are separated by newlines or commas; name { } is a block, not    *)
(* the value of an attribute.                                              *)
(***************************************************************************)
Undecodable == [ok |-> FALSE]
Decoded(val, e) == [ok |-> TRUE, val |-> val, end |-> e]

Digits == { Digit(d) : d \in 0..9 }
DigitVal(c) == CHOOSE d \in 0..9 : Digit(d) = c

RECURSIVE ParseNat(_)
ParseNat(s) ==
    IF Len(s) = 1 THEN DigitVal(s[1])
    ELSE 10 * ParseNat(SubSeq(s, 1, Len(s) - 1)) + DigitVal(s[Len(s)])

\* the rest of a quoted literal, from offset i, after the characters acc
RECURSIVE ReadQuoted(_, _, _)
ReadQuoted(text, i, acc) ==
    IF i >= Len(text) \/ At(text, i) = NL THEN Undecodable
    ELSE IF At(text, i) = QUOTE THEN Decoded(PyStr(acc), i + 1)
    ELSE IF MatchLit(text, i, <<"$", "{">>) THEN Undecodable
    ELSE IF At(text, i) # BACKSLASH THEN ReadQuoted(text, i + 1, Append(acc, At(text, i)))
    ELSE IF MatchLit(text, i + 1, <<"n">>) THEN ReadQuoted(text, i + 2, Append(acc, NL))
    ELSE IF MatchLit(text, i + 1, <<QUOTE>>) THEN ReadQuoted(text, i + 2, Append(acc, QUOTE))
    ELSE IF MatchLit(text, i + 1, <<BACKSLASH>>)
         THEN ReadQuoted(text, i + 2, Append(acc, BACKSLASH))
    ELSE Undecodable

\* the literal at offset i: a quoted string, a number, true or false
ReadLiteral(text, i) ==
    IF i >= Len(text) THEN Undecodable
    ELSE IF At(text, i) = QUOTE THEN ReadQuoted(text, i + 1, <<>>)
    ELSE IF At(text, i) \in Digits
         THEN LET j == SkipWhile(text, i, Digits)
              IN Decoded(PyInt(ParseNat(Slice(text, i, j))), j)
    ELSE IF MatchLit(text, i, <<"t", "r", "u", "e">>) THEN Decoded(PyBool(TRUE), i + 4)
    ELSE IF MatchLit(text, i, <<"f", "a", "l", "s", "e">>)
         THEN Decoded(PyBool(FALSE), i + 5)
    ELSE Undecodable

\* the items of a tuple from offset i, after the items acc
RECURSIVE ReadItems(_, _, _)
ReadItems(text, i, acc) ==
    LET p == SkipWhile(text, i, Whitespace)
        item == ReadLiteral(text, p)
        q == SkipWhile(text, item.end, Whitespace)
    IN IF p >= Len(text) THEN Undecodable
       ELSE IF At(text, p) = "]" THEN Decoded(PyList(acc), p + 1)
       ELSE IF ~item.ok \/ q >= Len(text) THEN Undecodable
       ELSE IF At(text, q) = "," THEN ReadItems(text, q + 1, Append(acc, item.val))
       ELSE IF At(text, q) = "]" THEN Decoded(PyList(Append(acc, item.val)), q + 1)
       ELSE Undecodable

\* the name whose characters are s, "" if there is none
NameOf(s) ==
    LET names == {"k", "n", "e", "o", "id", "arn", "tags", "tags_all", "v_configuration"}
    IN IF \E x \in names : KeyChars(x) = s
       THEN CHOOSE x \in names : KeyChars(x) = s ELSE ""

\* the entries of an object from offset i, after the entries acc
RECURSIVE ReadEntries(_, _, _)
ReadEntries(text, i, acc) ==
    LET p == SkipWhile(text, i, Whitespace \cup {","})
        q == SkipUntil(text, p, Whitespace \cup {"=", "{", "}"})
        name == NameOf(Slice(text, p, q))
        r == SkipWhile(text, q, Blank)
        item == ReadLiteral(text, SkipWhile(text, r + 1, Blank))
    IN IF p >= Len(text) THEN Undecodable
       ELSE IF At(text, p) = "}" THEN Decoded(PyDict(acc), p + 1)
       ELSE IF name = "" \/ ~MatchLit(text, r, <<"=">>) \/ ~item.ok THEN Undecodable
       ELSE ReadEntries(text, item.end,
                        [x \in DOMAIN acc \cup {name} |->
                            IF x = name THEN item.val ELSE acc[x]])

\* the value the text chunk defines for the attribute kc, if it is exactly
\* one attribute definition of kc
DecodeAttr(chunk, kc) ==
    LET p0 == SkipWhile(chunk, 0, Whitespace)
        p1 == SkipWhile(chunk, p0 + Len(kc), Blank)
        p2 == SkipWhile(chunk, p1 + 1, Blank)
        r == IF MatchLit(chunk, p2, <<"[">>) THEN ReadItems(chunk, p2 + 1, <<>>)
             ELSE IF MatchLit(chunk, p2, <<"{">>) THEN ReadEntries(chunk, p2 + 1, <<>>)
             ELSE ReadLiteral(chunk, p2)
    IN IF ~MatchLit(chunk, p0, kc) \/ ~MatchLit(chunk, p1, <<"=">>) THEN Undecodable
       ELSE IF ~r.ok THEN Undecodable
       ELSE IF SkipWhile(chunk, r.end, Whitespace) # Len(chunk) THEN Undecodable
       ELSE r

\* decoding the chunk gives back val: same shape, same content
RoundTrips(chunk, kc, val) ==
    \E d \in {DecodeAttr(chunk, kc)} : d.ok /\ d.val.t = val.t /\ PyEq(d.val, val)

\* Scalar, FlatList and FlatMap values
SimpleShape(val) == is_scalar(val) \/ is_list_of_scalars(val) \/ is_object_dict(val)

(***************************************************************************)
(* C13: for a non-empty Scalar, FlatList or FlatMap live value, the text   *)
(* main inserts for the key decodes back to that value.                    *)
(***************************************************************************)
C13_RoundTrip ==
    [][(pc = "insert" /\ pc' # "crashed" /\ SimpleShape(Val) /\ NonEmpty(Val)) =>
          RoundTrips(Slice(file_text', end - 1, end' - 1), Kc, Val)]_vars

\* what holds: the round trip of scalars and of lists of one element
RoundTrip_ScalarsAndSingletons ==
    [][(/\ pc = "insert" /\ pc' # "crashed" /\ NonEmpty(Val)
        /\ is_scalar(Val) \/ (is_list_of_scalars(Val) /\ Len(Val.v) = 1)) =>
          RoundTrips(Slice(file_text', end - 1, end' - 1), Kc, Val)]_vars

(***************************************************************************)
(* C14: just after indexing, the spans of each file are in increasing      *)
(* position and pairwise disjoint, each is exactly the brace-balanced      *)
(* block of its header, and there is one span for every header whose       *)
(* braces balance before the end of the file and none for the others,      *)
(* wherever the header text stands.                                        *)
(***************************************************************************)
SpansOf(p) == SelectSeq(idx, LAMBDA sp : sp.path = p)

BalancingHeaders(text) ==
    { i \in 0..(Len(text) - 1) :
        /\ HeaderAt(text, i).ok
        /\ ScanBalanced(text, HeaderAt(text, i).end - 1, 0, Len(text), "{", "}") > 0 }

C14_LocatorGuarantee ==
    (pc = "record" /\ rci = 1) =>
        \A p \in AllPaths :
           \E sps \in {SpansOf(p)} :
              /\ \A i, j \in 1..Len(sps) : i < j => sps[i].end <= sps[j].start
              /\ \A i \in 1..Len(sps) :
                    SpanIsBlock(files[p], sps[i].start, sps[i].end,
                                sps[i].rtype, sps[i].rname)
              /\ { sps[i].start : i \in 1..Len(sps) } = BalancingHeaders(files[p])
              /\ Len(sps) = Cardinality(BalancingHeaders(files[p]))

(***************************************************************************)
(* C15: a delete or insert step of the key loop that starts from a span    *)
(* which is exactly the record's resource block ends with such a span:     *)
(* end is one past the block's own closing brace, it moved by exactly the  *)
(* number of characters removed or inserted, down for a delete and up for  *)
(* an insert, and the text before start and from end on is unchanged.      *)
(***************************************************************************)
C15_SpanEndTracking ==
    [][(/\ pc \in {"delete", "insert"} /\ pc' # "crashed"
        /\ SpanIsBlock(file_text, start, end, Rc.type, Rc.name)) =>
          /\ SpanIsBlock(file_text', start', end', Rc.type, Rc.name)
          /\ At(file_text', end' - 1) = "}"
          /\ end' - end = Len(file_text') - Len(file_text)
          /\ IF pc = "delete" THEN end' <= end ELSE end' >= end
          /\ start' = start
          /\ Prefix(file_text', start) = Prefix(file_text, start)
          /\ Suffix(file_text', end') = Suffix(file_text, end)]_vars

\* a record whose key loop both removed text and inserted text, ending
\* with fewer characters than it read
C15_Witness ==
    /\ pc = "write" /\ Len(file_text) < Len(orig) /\ Len(out) = 1
    /\ out[1][2] = "SYNC"
    /\ SpanIsBlock(file_text, start, end, Rc.type, Rc.name)

(***************************************************************************)
(* C16: a delete or insert step for key k that starts from the record's    *)
(* resource block leaves every nested block of another name intact, the    *)
(* attribute named k inside it included, leaves the lines of the other     *)
(* attributes intact, and changes nothing outside the span.                *)
(***************************************************************************)
Occurrences(text, lit) == { i \in 0..(Len(text) - 1) : MatchLit(text, i, lit) }

\* the nested block  o { k = "p" }  and the attribute line  n = "ab"
NestedBlockText == Fragment("inner", <<"k">>)
OtherAttrText == Fragment("other", <<"k">>)

C16_FrameOfKeyEdit ==
    [][(/\ pc \in {"delete", "insert"} /\ pc' # "crashed"
        /\ SpanIsBlock(file_text, start, end, Rc.type, Rc.name)) =>
          /\ Cardinality(Occurrences(file_text', NestedBlockText))
               = Cardinality(Occurrences(file_text, NestedBlockText))
          /\ keys[ki] # "n" =>
                Cardinality(Occurrences(file_text', OtherAttrText))
                  = Cardinality(Occurrences(file_text, OtherAttrText))
          /\ Prefix(file_text', start) = Prefix(file_text, start)
          /\ Suffix(file_text', end') = Suffix(file_text, end)]_vars

(***************************************************************************)
(* C17: a key whose live value has an unsupported shape is never returned  *)
(* by keys_to_sync, so main never deletes or inserts under it and never    *)
(* takes its REMOVE (unsupported type) path; a record all of whose keys    *)
(* are of that kind leaves its file unwritten and logs nothing.            *)
(***************************************************************************)
Unsupported(val) ==
    /\ val.t # "none"
    /\ ~is_scalar(val) /\ ~is_object_dict(val)
    /\ ~is_list_of_scalars(val) /\ ~is_list_of_object_dicts(val)

LiveOf(rec, k) == Get(OrEmpty(rec.before).v, k)

AllKeysUnsupported(rec) ==
    \A k \in DOMAIN OrEmpty(rec.before).v \cup DOMAIN OrEmpty(rec.after).v :
       Unsupported(LiveOf(rec, k))

C17_UnsupportedLeftAlone ==
    /\ \A j \in 1..Len(plan) :
          \A k \in keys_to_sync(OrEmpty(plan[j].before), OrEmpty(plan[j].after),
                                OrEmpty(plan[j].after_unknown)) :
             ~Unsupported(LiveOf(plan[j], k))
    /\ pc \in {"delete", "insert"} => ~Unsupported(Val)
    /\ \A i \in 1..Len(out) : out[i][4] # "unsupported type"
    /\ (\A j \in 1..Len(plan) : AllKeysUnsupported(plan[j])) =>
          /\ writes = NoWrites /\ out = <<>>
          /\ pc \notin {"delete", "insert", "write", "crashed"}

\* a finished run on a resource that defines k, whose record gives k an
\* unsupported live value differing from the desired one: nothing written
C17_Witness ==
    /\ pc = "done" /\ run = 1 /\ Len(plan) = 1
    /\ Unsupported(LiveOf(plan[1], "k"))
    /\ ~PyEq(LiveOf(plan[1], "k"), Get(OrEmpty(plan[1].after).v, "k"))
    /\ Occurrences(files["f1.tf"], Fragment("scalarN", <<"k">>)) # {}
    /\ writes = NoWrites /\ out = <<>>

(***************************************************************************)
(* C18: whatever order the key set is iterated in, the keys of a record    *)
(* are processed in strictly increasing lexicographic order, each exactly  *)
(* once; the removal for a key is followed by the insertion (or the REMOVE *)
(* line) for that same key, which logs one line for it and only then moves *)
(* to the next key, so the text and the log do not depend on that order.   *)
(***************************************************************************)
StrictlyIncreasing(ks) ==
    \A i, j \in 1..Len(ks) : i < j => StrLess(KeyChars(ks[i]), KeyChars(ks[j]))

C18_DeterministicOrder ==
    [][/\ pc' \in {"delete", "insert", "write"} =>
             /\ StrictlyIncreasing(keys')
             /\ { keys'[i] : i \in 1..Len(keys') } = RcKeys'
       /\ pc = "delete" => ki' = ki /\ keys' = keys /\ pc' \in {"insert", "crashed"}
       /\ (pc = "insert" /\ pc' # "crashed") =>
             /\ Len(out') = Len(out) + 1 /\ out'[Len(out')][3] = keys[ki]
             /\ ki' = ki + 1 /\ keys' = keys
             /\ pc' = IF ki < Len(keys) THEN "delete" ELSE "write"]_vars

\* a record of the two keys k and n has been processed: k first, then n
C18_Witness ==
    /\ pc = "write" /\ Len(keys) = 2 /\ Len(out) = 2
    /\ out[1][3] = "k" /\ out[2][3] = "n"


=============================================================================
